---------------------------- MODULE Spec2Model ----------------------------
(***************************************************************************)
(* The reconciliation / ordering engine of solar-webui: the useInstances   *)
(* hook (src/src/hooks/useInstances.ts).  The hook owns the canonical      *)
(* snapshot of hosts and their instances, a loading flag, a last-error     *)
(* value, the in-memory host order and the map of per-host instance        *)
(* orders; it reads the live status overlay from the routing-events        *)
(* context, persists orders in localStorage, and talks to the server       *)
(* through solarClient.                                                    *)
(*                                                                         *)
(* Every continuation of the hook's async functions is one action: the     *)
(* JavaScript event loop runs each of them to completion.                  *)
(*                                                                         *)
(* The specifications share the variables:                                 *)
(*   Spec         the hook from its first render: fetchData invocations    *)
(*                running concurrently and the start/stop/restart          *)
(*                operations;                                              *)
(*   SpecRace     the initial fetch against the refreshes called while it  *)
(*                runs, the server's host list changing in between;        *)
(*   SpecTimer    the auto-refresh effect: channel and argument changing,  *)
(*                ticks, unmount;                                          *)
(*   SpecReorder  moveHost and moveInstance on a published snapshot, from  *)
(*                every stored order a session may find;                   *)
(*   SpecSurvive  refreshes and host reorders together, a host leaving     *)
(*                and coming back;                                         *)
(*   SpecStored   the hook over stored texts that are no array of ids;     *)
(*   SpecFrame    refreshes, an operation and both reorder calls in one    *)
(*                session;                                                 *)
(*   SpecLive     the invocations of fetchData under an adapter whose      *)
(*                every call settles (weak fairness);                      *)
(*   SpecView     mergedHosts while the routing-events context changes the *)
(*                overlay under a published snapshot;                      *)
(*   SpecOrder    applySavedOrder alone, on every input within the bounds. *)
(* moveHost and moveInstance write the orders and nothing else, fetchData  *)
(* and the operations never read or write an order.                        *)
(***************************************************************************)
EXTENDS Integers, Sequences, FiniteSets, TLC

VARIABLES
    hosts,          \* useState: canonical snapshot, a sequence of hosts
    loading,        \* useState: loading flag
    error,          \* useState: last-error, Null or a message
    hostStatuses,   \* routing-events context: host id -> overlay entry
    hostOrder,      \* useState: in-memory host order
    instanceOrders, \* useState: host id -> cached instance order
    storage,        \* localStorage: key -> stored text, for the keys set
    phase,          \* "created" before the effects ran, then "mounted"
    refreshes,      \* the fetchData() invocations in flight
    ops,            \* the start/stop/restart invocations in flight
    lastCall,       \* what the last step served: a reorder call, a rejection
    routingConnected, \* routing-events context: whether the channel is up
    refreshInterval,  \* the argument of the hook: the long polling period
    timers,         \* every timer setInterval made, armed or cleared
    items,          \* applySavedOrder applied alone: its first argument
    savedOrder,     \* ... its second argument
    sorted,         \* ... its result
    resorted,       \* ... the result of applying it to its own result
    applied         \* ... how many times it has been applied (0, 1, 2)

vars == <<hosts, loading, error, hostStatuses, hostOrder, instanceOrders,
          storage, phase, refreshes, ops, lastCall,
          routingConnected, refreshInterval, timers,
          items, savedOrder, sorted, resorted, applied>>

timerVars == <<routingConnected, refreshInterval, timers>>

engineVars == <<hosts, loading, error, hostStatuses, hostOrder,
                instanceOrders, storage, phase, refreshes, ops, lastCall,
                timerVars>>

orderVars == <<items, savedOrder, sorted, resorted, applied>>

Null == "null"

Undefined == "undefined"

\* a thrown value that is no Error
NotAnError == [isError |-> FALSE, message |-> Undefined]

\* the last step served neither a reorder call nor a rejection
NoCall == [op |-> "none", hostId |-> Null, instanceId |-> Null,
           direction |-> Null, wrote |-> <<>>, failure |-> NotAnError]

\* the last step served the rejection of an adapter call
Rejection(op, failure) == [NoCall EXCEPT !.op = op, !.failure = failure]

-----------------------------------------------------------------------------
(* Bounds of the model *)

\* how many entities a sibling set holds at most
MaxItems == 3
\* how long a saved order is at most
MaxSaved == 3

IdPool == <<"h1", "h2", "h3", "h4", "h5">>

\* ids of live entities
EntityIds == {IdPool[i] : i \in 1..MaxItems}

\* ids a saved order may hold: the live ones and one of an entity long gone
SavedIds == EntityIds \cup {"gone"}

-----------------------------------------------------------------------------
(* Sequences *)

Range(s) == {s[i] : i \in DOMAIN s}

\* seq.map(x => x.id)
Ids(seq) == [i \in DOMAIN seq |-> seq[i].id]

\* ids.map(id => ({ id }))
AsItems(ids) == [i \in DOMAIN ids |-> [id |-> ids[i]]]

\* every sequence over S of length at most n
SeqsUpTo(S, n) == UNION {[1..k -> S] : k \in 0..n}

\* those without a repeated element
UniqueSeqsUpTo(S, n) ==
    {s \in SeqsUpTo(S, n) : \A i, j \in DOMAIN s : s[i] = s[j] => i = j}

-----------------------------------------------------------------------------
(* applySavedOrder *)

\* new Map(savedOrder.map((id, idx) => [id, idx])): a later entry for the
\* same key replaces the earlier one; indices count from 0
OrderMap(order) ==
    [id \in Range(order) |->
        (CHOOSE i \in DOMAIN order :
            /\ order[i] = id
            /\ \A j \in DOMAIN order : j > i => order[j] # id) - 1]

\* the comparator with the sign of the two-known case reversed
CompareReversed(a, b, orderMap) ==
    LET ka == a.id \in DOMAIN orderMap
        kb == b.id \in DOMAIN orderMap
    IN  IF ka /\ kb THEN orderMap[b.id] - orderMap[a.id]
        ELSE IF ka THEN -1
        ELSE IF kb THEN 1
        ELSE 0

\* the comparator ranking an unknown entity before a known one
CompareUnknownFirst(a, b, orderMap) ==
    LET ka == a.id \in DOMAIN orderMap
        kb == b.id \in DOMAIN orderMap
    IN  IF ka /\ kb THEN orderMap[a.id] - orderMap[b.id]
        ELSE IF ka THEN 1
        ELSE IF kb THEN -1
        ELSE 0

\* the comparator without the tie of two unknown entities
CompareNoTie(a, b, orderMap) ==
    LET ka == a.id \in DOMAIN orderMap
        kb == b.id \in DOMAIN orderMap
    IN  IF ka /\ kb THEN orderMap[a.id] - orderMap[b.id]
        ELSE IF ka THEN -1
        ELSE IF kb THEN 1
        ELSE -1

\* the comparator handed to sort
Compare(a, b, orderMap) ==
    LET ka == a.id \in DOMAIN orderMap      \* ia !== undefined
        kb == b.id \in DOMAIN orderMap      \* ib !== undefined
    IN  IF ka /\ kb THEN orderMap[a.id] - orderMap[b.id]
        ELSE IF ka THEN -1
        ELSE IF kb THEN 1
        ELSE 0

\* Array.prototype.sort is stable: an element moves ahead of exactly the
\* elements the comparator ranks it strictly before
RECURSIVE Insert(_, _, _)
Insert(prefix, x, orderMap) ==
    IF prefix = <<>> THEN <<x>>
    ELSE LET n == Len(prefix)
         IN  IF Compare(x, prefix[n], orderMap) < 0
             THEN Append(Insert(SubSeq(prefix, 1, n - 1), x, orderMap), prefix[n])
             ELSE Append(prefix, x)

RECURSIVE StableSort(_, _)
StableSort(arr, orderMap) ==
    IF arr = <<>> THEN <<>>
    ELSE LET n == Len(arr)
         IN  Insert(StableSort(SubSeq(arr, 1, n - 1), orderMap), arr[n], orderMap)

applySavedOrder(arr, order) ==
    IF Len(order) = 0 THEN arr
    ELSE StableSort(arr, OrderMap(order))

-----------------------------------------------------------------------------
(* The persisted order store: localStorage, JSON text as token sequences *)

HOST_ORDER_KEY == <<"solar_host_order", "">>

\* the prefix alone: one key for the instance orders of every host
InstanceOrderKeyShared(hostId) == <<"solar_instance_order_", "">>

\* INSTANCE_ORDER_KEY_PREFIX + hostId
InstanceOrderKey(hostId) == <<"solar_instance_order_", hostId>>

\* the elements of an array, separated by commas
RECURSIVE JsonElements(_)
JsonElements(order) ==
    IF order = <<>> THEN <<>>
    ELSE IF Len(order) = 1 THEN <<order[1]>>
    ELSE <<order[1], ",">> \o JsonElements(Tail(order))

\* JSON.stringify of an array of ids
JsonStringify(order) == <<"[">> \o JsonElements(order) \o <<"]">>

JsonPunctuation == {"[", "]", ","}

\* whether the text is a JSON array of ids: "[", ids separated by ",", "]"
JsonWellFormed(text) ==
    /\ Len(text) >= 2
    /\ text[1] = "["
    /\ text[Len(text)] = "]"
    /\ (Len(text) > 2 => Len(text) % 2 = 1)
    /\ \A i \in 2..(Len(text) - 1) :
          IF i % 2 = 0 THEN text[i] \notin JsonPunctuation
                       ELSE text[i] = ","

\* JSON.parse of a well-formed text: the ids at the even positions
JsonParse(text) == [k \in 1..((Len(text) - 1) \div 2) |-> text[2 * k]]

\* what JSON.parse gives for the text null and for the text {}: values that
\* are no array, each kept as a sequence holding one tag that is no id
JsNull == <<"(null)">>

JsObject == <<"(object)">>

NonArrays == {JsNull, JsObject}

\* Array.isArray(value)
IsArray(value) == value \notin NonArrays

\* the texts JSON.parse accepts that are not arrays: null, an empty object
JsonNullText == <<"null">>

JsonObjectText == <<"{", "}">>

\* try { raw = getItem(key); if (raw) return JSON.parse(raw) } catch {} return []
\* (a key that was never set is outside the store's domain: getItem gives
\* null; the empty text is falsy too; a text JSON.parse rejects is caught;
\* what JSON.parse accepts is returned as it is, array or not)
ReadOrder(store, key) ==
    IF key \notin DOMAIN store THEN <<>>
    ELSE LET raw == store[key]
         IN  IF raw = <<>> THEN <<>>
             ELSE IF JsonWellFormed(raw) THEN JsonParse(raw)
             ELSE IF raw = JsonNullText THEN JsNull
             ELSE IF raw = JsonObjectText THEN JsObject
             ELSE <<>>

readHostOrder(store) == ReadOrder(store, HOST_ORDER_KEY)

readInstanceOrder(store, hostId) == ReadOrder(store, InstanceOrderKey(hostId))

\* localStorage.setItem(key, JSON.stringify(order))
WriteOrder(store, key, order) ==
    [k \in DOMAIN store \cup {key} |->
        IF k = key THEN JsonStringify(order) ELSE store[k]]

writeHostOrder(store, order) == WriteOrder(store, HOST_ORDER_KEY, order)

writeInstanceOrder(store, hostId, order) ==
    WriteOrder(store, InstanceOrderKey(hostId), order)

-----------------------------------------------------------------------------
(* The effective view: mergedHosts *)

\* a value that || takes: not undefined
Truthy(v) == v # Undefined

\* instanceOrders[host.id] ?? readInstanceOrder(host.id)
SavedInstanceOrder(cache, store, hostId) ==
    IF hostId \in DOMAIN cache THEN cache[hostId]
    ELSE readInstanceOrder(store, hostId)

\* the memory of the overlay entry, whatever it is
OverlayMemoryAlways(ws, host) == ws.memory

\* wsStatus.memory || host.memory
OverlayMemory(ws, host) ==
    IF Truthy(ws.memory) THEN ws.memory ELSE host.memory

\* the body of hosts.map in mergedHosts
MergedHost(host, overlay, cache, store) ==
    LET base ==
            IF host.id \in DOMAIN overlay
            THEN [host EXCEPT !.status = overlay[host.id].status,
                              !.memory = OverlayMemory(overlay[host.id], host)]
            ELSE host
        savedInstanceOrder == SavedInstanceOrder(cache, store, host.id)
    IN  [base EXCEPT !.instances = applySavedOrder(base.instances, savedInstanceOrder)]

\* only the merged hosts the saved order names, when it names any
MergedHostsOfSavedOnly(snapshot, overlay, order, cache, store) ==
    LET merged == applySavedOrder(
                    [i \in DOMAIN snapshot |->
                        MergedHost(snapshot[i], overlay, cache, store)],
                    order)
    IN  IF Len(order) = 0 THEN merged
        ELSE SelectSeq(merged, LAMBDA host : host.id \in Range(order))

\* the merged hosts left in the order of the snapshot
MergedHostsOfUnordered(snapshot, overlay, order, cache, store) ==
    [i \in DOMAIN snapshot |-> MergedHost(snapshot[i], overlay, cache, store)]

MergedHostsOf(snapshot, overlay, order, cache, store) ==
    applySavedOrder(
        [i \in DOMAIN snapshot |-> MergedHost(snapshot[i], overlay, cache, store)],
        order)

\* what the hook returns as hosts
mergedHosts ==
    MergedHostsOf(hosts, hostStatuses, hostOrder, instanceOrders, storage)

\* applySavedOrder(items, savedOrder) throws a TypeError: null has no length
\* (line 41), an object has a length that is not 0 and no map (line 43)
ApplyThrows(order) == ~IsArray(order)

\* the useMemo of mergedHosts throws, and with it the render of the hook
mergedHostsThrows ==
    \/ \E i \in DOMAIN hosts :
          ApplyThrows(SavedInstanceOrder(instanceOrders, storage, hosts[i].id))
    \/ ApplyThrows(hostOrder)

-----------------------------------------------------------------------------
(* The data the server answers with *)

\* concurrent fetchData() invocations followed at once
MaxRefreshes == 2

RefreshIds == 1..MaxRefreshes

\* the action invocations followed at once
OpIds == {1}

HostIds == {"h1", "h2"}

InstanceIds == {"i1", "i2"}

NameOf(id) == <<"name of", id>>

\* a host as getHosts returns it
ServerHost(id) ==
    [id |-> id, name |-> NameOf(id), status |-> "online", memory |-> "pulled"]

\* the host lists getHosts may resolve with
HostLists ==
    {[i \in DOMAIN ids |-> ServerHost(ids[i])] :
        ids \in {<<"h1">>, <<"h2", "h1">>}}

\* the instance lists getHostInstances may resolve with (instances are
\* opaque to the hook but for their id)
InstanceLists == {AsItems(ids) : ids \in {<<"i2", "i1">>}}

\* what a rejected adapter call throws: an Error with a message, or a value
\* that is no Error
Failures ==
    {[isError |-> TRUE, message |-> "connection refused"], NotAnError}

\* err instanceof Error ? err.message : fallback
MessageOf(failure, fallback) ==
    IF failure.isError THEN failure.message ELSE fallback

Kinds == {"start", "stop", "restart"}

FallbackOf(kind) ==
    CASE kind = "start" -> "Failed to start instance"
      [] kind = "stop" -> "Failed to stop instance"
      [] kind = "restart" -> "Failed to restart instance"

-----------------------------------------------------------------------------
(* The auto-refresh timer *)

\* export function useInstances(refreshInterval = 30000)
DefaultRefreshInterval == 30000

\* the period while the channel is not connected
DisconnectedInterval == 10000

\* timers setInterval makes at most, armed or cleared
MaxTimers == 3

\* the two periods taken the wrong way round
IntervalSwapped(connected, configured) ==
    IF connected THEN DisconnectedInterval ELSE configured

\* routingConnected ? refreshInterval : 10000
Interval(connected, configured) ==
    IF connected THEN configured ELSE DisconnectedInterval

\* setInterval(fetchData, interval): one more timer, armed
SetInterval(made, interval) ==
    Append(made, [interval |-> interval, armed |-> TRUE])

\* a cleanup that clears nothing
ClearIntervalForgotten(made) == made

\* clearInterval(timer), timer being the one the effect made when it ran
\* last
ClearInterval(made) ==
    IF made = <<>> THEN made ELSE [made EXCEPT ![Len(made)].armed = FALSE]

\* the timers setInterval made that no clearInterval has cleared
Armed == {k \in DOMAIN timers : timers[k].armed}

-----------------------------------------------------------------------------
(* fetchData *)

IdleRefresh == [pc |-> "idle", hostsData |-> <<>>, results |-> <<>>]

\* an invocation of startInstance, stopInstance or restartInstance: where it
\* stands, the fetchData() it awaits, the message of the Error it throws
IdleOp == [pc |-> "idle", kind |-> Null, refresh |-> 0, thrown |-> Null]

\* { ...host, instances }
WithInstances(host, instances) ==
    [id |-> host.id, name |-> host.name, status |-> host.status,
     memory |-> host.memory, instances |-> instances]

\* a slot of the model that follows no invocation
Free(r) == refreshes[r].pc = "idle"

\* the operations awaiting invocation r return when it completes: fetchData
\* never rejects, and the continuation of `await fetchData()` runs before
\* any other event is served
ReturnAwaiting(r) ==
    [a \in OpIds |->
        IF ops[a].pc = "refreshing" /\ ops[a].refresh = r
        THEN [IdleOp EXCEPT !.pc = "resolved"]
        ELSE ops[a]]

FreeSlot == CHOOSE r \in RefreshIds : Free(r) /\ \A q \in RefreshIds : q < r => ~Free(q)

\* fetchData up to its first await: setError(null), getHosts() is called
StartRefresh(r) ==
    /\ error' = Null
    /\ refreshes' = [refreshes EXCEPT ![r] =
                        [pc |-> "getHosts", hostsData |-> <<>>, results |-> <<>>]]

\* getHosts() resolved: the per-host fetches are started, Promise.all awaited
GetHostsOk(r, list) ==
    /\ refreshes[r].pc = "getHosts"
    /\ refreshes' = [refreshes EXCEPT ![r] =
          [pc |-> "instances",
           hostsData |-> list,
           results |-> [i \in DOMAIN list |->
                          [state |-> "pending", fetched |-> <<>>,
                           value |-> WithInstances(list[i], <<>>)]]]]
    /\ lastCall' = NoCall
    /\ UNCHANGED <<hosts, loading, error, hostStatuses, hostOrder,
                   instanceOrders, storage, phase, ops>>
    /\ UNCHANGED timerVars
    /\ UNCHANGED orderVars

\* getHosts() rejected, and the view is blanked
GetHostsFailBlanking(r, failure) ==
    /\ refreshes[r].pc = "getHosts"
    /\ error' = MessageOf(failure, "Failed to fetch data")
    /\ hosts' = <<>>
    /\ loading' = FALSE
    /\ refreshes' = [refreshes EXCEPT ![r] = IdleRefresh]
    /\ ops' = ReturnAwaiting(r)
    /\ lastCall' = Rejection("getHosts rejected", failure)
    /\ UNCHANGED <<hostStatuses, hostOrder, instanceOrders, storage, phase>>
    /\ UNCHANGED timerVars
    /\ UNCHANGED orderVars

\* getHosts() rejected: catch, and no finally
GetHostsFailStillLoading(r, failure) ==
    /\ refreshes[r].pc = "getHosts"
    /\ error' = MessageOf(failure, "Failed to fetch data")
    /\ refreshes' = [refreshes EXCEPT ![r] = IdleRefresh]
    /\ ops' = ReturnAwaiting(r)
    /\ lastCall' = Rejection("getHosts rejected", failure)
    /\ UNCHANGED <<hosts, loading, hostStatuses, hostOrder, instanceOrders,
                   storage, phase>>
    /\ UNCHANGED timerVars
    /\ UNCHANGED orderVars

\* getHosts() rejected: catch, finally, and the error thrown on to the
\* caller of fetchData
GetHostsFailRethrowing(r, failure) ==
    /\ refreshes[r].pc = "getHosts"
    /\ error' = MessageOf(failure, "Failed to fetch data")
    /\ loading' = FALSE
    /\ refreshes' = [refreshes EXCEPT ![r] = IdleRefresh]
    /\ ops' = [a \in OpIds |->
                IF ops[a].pc = "refreshing" /\ ops[a].refresh = r
                THEN [ops[a] EXCEPT !.pc = "rejected",
                                    !.thrown = MessageOf(failure, "Failed to fetch data")]
                ELSE ops[a]]
    /\ lastCall' = Rejection("getHosts rejected", failure)
    /\ UNCHANGED <<hosts, hostStatuses, hostOrder, instanceOrders, storage,
                   phase>>
    /\ UNCHANGED timerVars
    /\ UNCHANGED orderVars

\* getHosts() rejected: catch, then finally
GetHostsFail(r, failure) ==
    /\ refreshes[r].pc = "getHosts"
    /\ error' = MessageOf(failure, "Failed to fetch data")
    /\ loading' = FALSE
    /\ refreshes' = [refreshes EXCEPT ![r] = IdleRefresh]
    /\ ops' = ReturnAwaiting(r)
    /\ lastCall' = Rejection("getHosts rejected", failure)
    /\ UNCHANGED <<hosts, hostStatuses, hostOrder, instanceOrders, storage,
                   phase>>
    /\ UNCHANGED timerVars
    /\ UNCHANGED orderVars

\* catch (err) { console.error(...); return { ...host, instances: [] } }
SettleFailed(result, host) ==
    [state |-> "failed", fetched |-> <<>>, value |-> WithInstances(host, <<>>)]

\* getHostInstances(host.id) resolved for the i-th host
InstancesOk(r, i, instances) ==
    /\ refreshes[r].pc = "instances"
    /\ i \in DOMAIN refreshes[r].results
    /\ refreshes[r].results[i].state = "pending"
    /\ refreshes' = [refreshes EXCEPT ![r].results[i] =
          [state |-> "ok", fetched |-> instances,
           value |-> WithInstances(refreshes[r].hostsData[i], instances)]]
    /\ lastCall' = NoCall
    /\ UNCHANGED <<hosts, loading, error, hostStatuses, hostOrder,
                   instanceOrders, storage, phase, ops>>
    /\ UNCHANGED timerVars
    /\ UNCHANGED orderVars

\* getHostInstances(host.id) rejected for the i-th host
InstancesFail(r, i, failure) ==
    /\ refreshes[r].pc = "instances"
    /\ i \in DOMAIN refreshes[r].results
    /\ refreshes[r].results[i].state = "pending"
    /\ refreshes' = [refreshes EXCEPT ![r].results[i] =
          SettleFailed(refreshes[r].results[i], refreshes[r].hostsData[i])]
    /\ lastCall' = NoCall
    /\ UNCHANGED <<hosts, loading, error, hostStatuses, hostOrder,
                   instanceOrders, storage, phase, ops>>
    /\ UNCHANGED timerVars
    /\ UNCHANGED orderVars

\* one per-host fetch has settled, whatever the others did
SomeSettled(r) ==
    \E i \in DOMAIN refreshes[r].results :
        refreshes[r].results[i].state \in {"ok", "failed"}

\* every per-host fetch has resolved: a Promise.all over functions that let
\* the rejection through
AllFulfilled(r) ==
    \A i \in DOMAIN refreshes[r].results :
        refreshes[r].results[i].state = "ok"

\* Promise.all resolves when every per-host function has returned
AllSettled(r) ==
    \A i \in DOMAIN refreshes[r].results :
        refreshes[r].results[i].state \in {"ok", "failed"}

\* only the hosts whose fetch succeeded
HostsWithInstancesFulfilled(results) ==
    LET kept == SelectSeq(results, LAMBDA x : x.state = "ok")
    IN  [i \in DOMAIN kept |-> kept[i].value]

\* what Promise.all resolves with: the value of every per-host function, in
\* the order of hostsData
HostsWithInstances(results) == [i \in DOMAIN results |-> results[i].value]

\* Promise.all resolved, and the result is dropped when an invocation has
\* completed before
PublishFirstOnly(r) ==
    /\ refreshes[r].pc = "instances"
    /\ AllSettled(r)
    /\ hosts' = IF loading THEN HostsWithInstances(refreshes[r].results)
              ELSE hosts
    /\ loading' = FALSE
    /\ refreshes' = [refreshes EXCEPT ![r] = IdleRefresh]
    /\ ops' = ReturnAwaiting(r)
    /\ lastCall' = NoCall
    /\ UNCHANGED <<error, hostStatuses, hostOrder, instanceOrders, storage,
                   phase>>
    /\ UNCHANGED timerVars
    /\ UNCHANGED orderVars

\* Promise.all resolved: setHosts(hostsWithInstances), then finally
Publish(r) ==
    /\ refreshes[r].pc = "instances"
    /\ AllSettled(r)
    /\ hosts' = HostsWithInstances(refreshes[r].results)
    /\ loading' = FALSE
    /\ refreshes' = [refreshes EXCEPT ![r] = IdleRefresh]
    /\ ops' = ReturnAwaiting(r)
    /\ lastCall' = NoCall
    /\ UNCHANGED <<error, hostStatuses, hostOrder, instanceOrders, storage,
                   phase>>
    /\ UNCHANGED timerVars
    /\ UNCHANGED orderVars

\* the effects of the first render without the initial-fetch effect
MountTimerOnly ==
    /\ phase = "created"
    /\ phase' = "mounted"
    /\ timers' = SetInterval(timers, Interval(routingConnected, refreshInterval))
    /\ lastCall' = NoCall
    /\ UNCHANGED <<hosts, loading, error, hostStatuses, hostOrder,
                   instanceOrders, storage, refreshes, ops, routingConnected,
                   refreshInterval>>
    /\ UNCHANGED orderVars

\* the effects of the first render, in their order: the initial-fetch
\* effect calls fetchData(), the auto-refresh effect arms the timer
Mount ==
    /\ phase = "created"
    /\ phase' = "mounted"
    /\ StartRefresh(FreeSlot)
    /\ timers' = SetInterval(timers, Interval(routingConnected, refreshInterval))
    /\ lastCall' = NoCall
    /\ UNCHANGED <<hosts, loading, hostStatuses, hostOrder, instanceOrders,
                   storage, ops, routingConnected, refreshInterval>>
    /\ UNCHANGED orderVars

\* refresh() called by the presentation layer (a tick of the timer starts
\* an invocation the same way: Tick)
Refresh ==
    /\ phase = "mounted"
    /\ \E r \in RefreshIds : Free(r)
    /\ StartRefresh(FreeSlot)
    /\ lastCall' = NoCall
    /\ UNCHANGED <<hosts, loading, hostStatuses, hostOrder, instanceOrders,
                   storage, phase, ops>>
    /\ UNCHANGED timerVars
    /\ UNCHANGED orderVars

-----------------------------------------------------------------------------
(* startInstance, stopInstance, restartInstance *)

\* the operation is called: the adapter action is invoked and awaited (the
\* host and instance ids go to the adapter and nowhere else)
CallAction(a, kind) ==
    /\ phase = "mounted"
    /\ ops[a].pc \in {"idle", "resolved", "rejected"}
    /\ ops' = [ops EXCEPT ![a] = [IdleOp EXCEPT !.pc = "adapter", !.kind = kind]]
    /\ lastCall' = NoCall
    /\ UNCHANGED <<hosts, loading, error, hostStatuses, hostOrder,
                   instanceOrders, storage, phase, refreshes>>
    /\ UNCHANGED timerVars
    /\ UNCHANGED orderVars

\* the adapter action resolved, and fetchData() is called but not awaited
AdapterOkUnawaited(a) ==
    /\ ops[a].pc = "adapter"
    /\ \E r \in RefreshIds : Free(r)
    /\ StartRefresh(FreeSlot)
    /\ ops' = [ops EXCEPT ![a] = [IdleOp EXCEPT !.pc = "resolved"]]
    /\ lastCall' = NoCall
    /\ UNCHANGED <<hosts, loading, hostStatuses, hostOrder, instanceOrders,
                   storage, phase>>
    /\ UNCHANGED timerVars
    /\ UNCHANGED orderVars

\* the adapter action resolved: fetchData() is called and awaited
AdapterOk(a) ==
    /\ ops[a].pc = "adapter"
    /\ \E r \in RefreshIds : Free(r)
    /\ StartRefresh(FreeSlot)
    /\ ops' = [ops EXCEPT ![a] = [IdleOp EXCEPT !.pc = "refreshing",
                                                 !.refresh = FreeSlot]]
    /\ lastCall' = NoCall
    /\ UNCHANGED <<hosts, loading, hostStatuses, hostOrder, instanceOrders,
                   storage, phase>>
    /\ UNCHANGED timerVars
    /\ UNCHANGED orderVars

\* the adapter action rejected, and a refresh is started all the same
AdapterFailRefreshing(a, failure) ==
    /\ ops[a].pc = "adapter"
    /\ \E r \in RefreshIds : Free(r)
    /\ StartRefresh(FreeSlot)
    /\ ops' = [ops EXCEPT ![a].pc = "rejected",
                          ![a].thrown = MessageOf(failure, FallbackOf(ops[a].kind))]
    /\ lastCall' = Rejection("action rejected", failure)
    /\ UNCHANGED <<hosts, loading, hostStatuses, hostOrder, instanceOrders,
                   storage, phase>>
    /\ UNCHANGED timerVars
    /\ UNCHANGED orderVars

\* the adapter action rejected: catch, throw new Error(message or fallback)
AdapterFail(a, failure) ==
    /\ ops[a].pc = "adapter"
    /\ ops' = [ops EXCEPT ![a].pc = "rejected",
                          ![a].thrown = MessageOf(failure, FallbackOf(ops[a].kind))]
    /\ lastCall' = Rejection("action rejected", failure)
    /\ UNCHANGED <<hosts, loading, error, hostStatuses, hostOrder,
                   instanceOrders, storage, phase, refreshes>>
    /\ UNCHANGED timerVars
    /\ UNCHANGED orderVars

-----------------------------------------------------------------------------
(* moveHost, moveInstance *)

Directions == {"up", "down"}

\* the last step served a reorder call; wrote is the key it set, if any
ReorderCall(op, hostId, instanceId, direction, wrote) ==
    [NoCall EXCEPT !.op = op, !.hostId = hostId, !.instanceId = instanceId,
                   !.direction = direction, !.wrote = wrote]

\* the saved order kept whole, the current ids it does not hold after it
FullOrderKeepingSaved(currentIds, saved) ==
    saved \o SelectSeq(currentIds, LAMBDA id : id \notin Range(saved))

\* the current ids as the snapshot lists them, the saved order not applied
FullOrderAsListed(currentIds, saved) == currentIds

\* applySavedOrder(currentIds.map((id) => ({ id })), saved).map((x) => x.id)
FullOrder(currentIds, saved) == Ids(applySavedOrder(AsItems(currentIds), saved))

\* fullOrder.indexOf(id), counted from 0; -1 when absent
IndexOf(order, id) ==
    IF \E i \in DOMAIN order : order[i] = id
    THEN (CHOOSE i \in DOMAIN order :
            order[i] = id /\ \A j \in DOMAIN order : j < i => order[j] # id) - 1
    ELSE -1

\* the swap index taken the same way for both directions
SwapIndexAlwaysDown(idx, direction) == idx + 1

\* direction === 'up' ? idx - 1 : idx + 1
SwapIndex(idx, direction) == IF direction = "up" THEN idx - 1 ELSE idx + 1

\* the bounds check letting the index one past the end through
MovableOffByOne(order, id, direction) ==
    LET idx == IndexOf(order, id)
        swapIdx == SwapIndex(idx, direction)
    IN  idx # -1 /\ ~(swapIdx < 0 \/ swapIdx > Len(order))

\* idx !== -1 and 0 <= swapIdx < fullOrder.length
Movable(order, id, direction) ==
    LET idx == IndexOf(order, id)
        swapIdx == SwapIndex(idx, direction)
    IN  idx # -1 /\ ~(swapIdx < 0 \/ swapIdx >= Len(order))

\* order[k] for an index counted from 0; undefined outside the array
At(order, k) == IF k + 1 \in DOMAIN order THEN order[k + 1] ELSE Undefined

\* [newOrder[idx], newOrder[swapIdx]] = [newOrder[swapIdx], newOrder[idx]]
\* on a copy of order (indices from 0; an assignment past the end grows the
\* array, one to a negative index leaves its elements alone)
Swapped(order, idx, swapIdx) ==
    LET n == IF swapIdx + 1 > Len(order) THEN swapIdx + 1 ELSE Len(order)
    IN  [k \in 1..n |->
            IF k = idx + 1 THEN At(order, swapIdx)
            ELSE IF k = swapIdx + 1 THEN At(order, idx)
            ELSE At(order, k - 1)]

NewOrder(order, id, direction) ==
    Swapped(order, IndexOf(order, id), SwapIndex(IndexOf(order, id), direction))

\* hosts.find((h) => h.id === hostId)
HasHost(hostId) == \E i \in DOMAIN hosts : hosts[i].id = hostId

FindHost(hostId) ==
    hosts[CHOOSE i \in DOMAIN hosts :
            hosts[i].id = hostId /\ \A j \in DOMAIN hosts : j < i => hosts[j].id # hostId]

MoveHost(hostId, direction) ==
    LET fullOrder == FullOrder(Ids(hosts), hostOrder)
    IN  /\ phase = "mounted"
        /\ IF Movable(fullOrder, hostId, direction)
           THEN LET newOrder == NewOrder(fullOrder, hostId, direction)
                IN  /\ storage' = writeHostOrder(storage, newOrder)
                    /\ hostOrder' = newOrder
                    /\ lastCall' = ReorderCall("moveHost", hostId, Null,
                                               direction, HOST_ORDER_KEY)
           ELSE /\ UNCHANGED <<storage, hostOrder>>
                /\ lastCall' = ReorderCall("moveHost", hostId, Null,
                                           direction, <<>>)
        /\ UNCHANGED <<hosts, loading, error, hostStatuses, instanceOrders,
                       phase, refreshes, ops>>
        /\ UNCHANGED timerVars
        /\ UNCHANGED orderVars

MoveInstance(hostId, instanceId, direction) ==
    /\ phase = "mounted"
    /\ IF HasHost(hostId)
          /\ Movable(FullOrder(Ids(FindHost(hostId).instances),
                               SavedInstanceOrder(instanceOrders, storage, hostId)),
                     instanceId, direction)
       THEN LET fullOrder ==
                    FullOrder(Ids(FindHost(hostId).instances),
                              SavedInstanceOrder(instanceOrders, storage, hostId))
                newOrder == NewOrder(fullOrder, instanceId, direction)
            IN  /\ storage' = writeInstanceOrder(storage, hostId, newOrder)
                /\ instanceOrders' =
                      [h \in DOMAIN instanceOrders \cup {hostId} |->
                          IF h = hostId THEN newOrder ELSE instanceOrders[h]]
                /\ lastCall' = ReorderCall("moveInstance", hostId, instanceId,
                                           direction, InstanceOrderKey(hostId))
       ELSE /\ UNCHANGED <<storage, instanceOrders>>
            /\ lastCall' = ReorderCall("moveInstance", hostId, instanceId,
                                       direction, <<>>)
    /\ UNCHANGED <<hosts, loading, error, hostStatuses, hostOrder, phase,
                   refreshes, ops>>
    /\ UNCHANGED timerVars
    /\ UNCHANGED orderVars

-----------------------------------------------------------------------------
(* The hook from its first render on *)

NoOrders == [h \in {} |-> <<>>]

\* the state after the first render, with `store` in localStorage
Created(store) ==
    /\ hosts = <<>>
    /\ loading = TRUE
    /\ error = Null
    /\ hostStatuses = [h \in {} |-> Null]
    /\ hostOrder = readHostOrder(store)
    /\ instanceOrders = NoOrders
    /\ storage = store
    /\ phase = "created"
    /\ refreshes = [r \in RefreshIds |-> IdleRefresh]
    /\ ops = [a \in OpIds |-> IdleOp]
    /\ lastCall = NoCall
    /\ timers = <<>>

\* the channel state and the argument the hook is rendered with
Wired(connected, interval) ==
    /\ routingConnected = connected
    /\ refreshInterval = interval

\* the hook with its effects run, the channel down, the default argument
MountedDefault ==
    /\ phase = "mounted"
    /\ Wired(FALSE, DefaultRefreshInterval)
    /\ timers = SetInterval(<<>>, Interval(FALSE, DefaultRefreshInterval))

OrderUnused ==
    /\ items = <<>>
    /\ savedOrder = <<>>
    /\ sorted = <<>>
    /\ resorted = <<>>
    /\ applied = 0

EmptyStore == [k \in {} |-> <<>>]

Init ==
    /\ Created(EmptyStore)
    /\ Wired(FALSE, DefaultRefreshInterval)
    /\ OrderUnused

Next ==
    \/ Mount
    \/ Refresh
    \/ \E r \in RefreshIds :
        \/ \E list \in HostLists : GetHostsOk(r, list)
        \/ \E failure \in Failures : GetHostsFail(r, failure)
        \/ \E i \in 1..Cardinality(HostIds) :
            \/ \E instances \in InstanceLists : InstancesOk(r, i, instances)
            \/ \E failure \in Failures : InstancesFail(r, i, failure)
        \/ Publish(r)
    \/ \E a \in OpIds :
        \/ \E kind \in Kinds : CallAction(a, kind)
        \/ AdapterOk(a)
        \/ \E failure \in Failures : AdapterFail(a, failure)

Spec == Init /\ [][Next]_vars

-----------------------------------------------------------------------------
(* Reordering a published snapshot: the snapshots and the stored orders a  *)
(* session may find, then every moveHost and moveInstance call             *)

Host(id, instanceIds) == WithInstances(ServerHost(id), AsItems(instanceIds))

ReorderSnapshots ==
    {<<Host("h1", <<"i1", "i2", "i3">>), Host("h2", <<>>), Host("h3", <<"i2">>)>>,
     <<Host("h3", <<"i3", "i1">>), Host("h1", <<"i1", "i2">>)>>,
     <<Host("h2", <<"i1">>)>>}

\* the texts found under the host-order key: none, an order that leaves a
\* host out, an order naming a host long gone, a text cut short
StoredHostOrders ==
    {<<>>,
     JsonStringify(<<"h2", "h1">>),
     JsonStringify(<<"h3", "gone", "h1">>),
     <<"[", "h1", ",">>}

\* the texts found under the instance-order key of h1
StoredInstanceOrders ==
    {<<>>,
     JsonStringify(<<"i1", "i2", "i3">>),
     JsonStringify(<<"i3", "gone">>),
     <<"[", "i1", ",">>}

\* a store holding the two texts (the empty text stands for a key never set)
StoreWith(hostText, instanceText) ==
    LET keys == (IF hostText = <<>> THEN {} ELSE {HOST_ORDER_KEY})
                \cup (IF instanceText = <<>> THEN {}
                      ELSE {InstanceOrderKey("h1")})
    IN  [k \in keys |-> IF k = HOST_ORDER_KEY THEN hostText ELSE instanceText]

ReorderStores ==
    {StoreWith(hostText, instanceText) :
        hostText \in StoredHostOrders, instanceText \in StoredInstanceOrders}

\* the ids a reorder call may be given: live ones and ones that are not
MovedHostIds == {"h1", "h2", "h3", "gone"}

MovedInstanceIds == {"i1", "i2", "i3", "gone"}

InitReorder ==
    /\ \E store \in ReorderStores :
        /\ storage = store
        /\ hostOrder = readHostOrder(store)
    /\ hosts \in ReorderSnapshots
    /\ loading = FALSE
    /\ error = Null
    /\ hostStatuses = [h \in {} |-> Null]
    /\ instanceOrders = NoOrders
    /\ MountedDefault
    /\ refreshes = [r \in RefreshIds |-> IdleRefresh]
    /\ ops = [a \in OpIds |-> IdleOp]
    /\ lastCall = NoCall
    /\ OrderUnused

NextReorder ==
    \/ \E hostId \in MovedHostIds, direction \in Directions :
          MoveHost(hostId, direction)
    \/ \E hostId \in MovedHostIds, instanceId \in MovedInstanceIds,
          direction \in Directions :
          MoveInstance(hostId, instanceId, direction)

SpecReorder == InitReorder /\ [][NextReorder]_vars

-----------------------------------------------------------------------------
(* The effective view under the live status overlay: a published snapshot, *)
(* and the routing-events context handing the hook one overlay after       *)
(* another                                                                 *)

\* a host as a refresh publishes it, with the status and memory pulled
PulledHost(id, status, memory, instanceIds) ==
    [id |-> id, name |-> NameOf(id), status |-> status, memory |-> memory,
     instances |-> AsItems(instanceIds)]

ViewSnapshots ==
    {<<PulledHost("h1", "stopped", "pulled", <<"i1", "i2">>),
       PulledHost("h2", "running", Undefined, <<>>)>>,
     <<PulledHost("h2", "stopped", "pulled", <<"i1">>),
       PulledHost("h1", "running", "pulled", <<"i1", "i2">>)>>}

ViewStores ==
    {EmptyStore,
     StoreWith(JsonStringify(<<"h2", "h1">>), JsonStringify(<<"i2", "i1">>)),
     StoreWith(JsonStringify(<<"h1", "gone">>), JsonStringify(<<"i2", "gone">>))}

\* the hosts the overlay may hold an entry for: live ones and one that is not
OverlayHostIds == {"h1", "h2", "gone"}

\* an overlay entry: a status, and a memory reading or none
OverlayEntries ==
    [status : {"running", "stopped"}, memory : {"pushed", Undefined}]

InitView ==
    /\ \E store \in ViewStores :
        /\ storage = store
        /\ hostOrder = readHostOrder(store)
    /\ hosts \in ViewSnapshots
    /\ loading = FALSE
    /\ error = Null
    /\ hostStatuses = [h \in {} |-> Null]
    /\ instanceOrders = NoOrders
    /\ MountedDefault
    /\ refreshes = [r \in RefreshIds |-> IdleRefresh]
    /\ ops = [a \in OpIds |-> IdleOp]
    /\ lastCall = NoCall
    /\ OrderUnused

\* the context hands the hook an overlay with a new entry for hostId
OverlayPush(hostId, entry) ==
    /\ phase = "mounted"
    /\ hostStatuses' = [h \in DOMAIN hostStatuses \cup {hostId} |->
                          IF h = hostId THEN entry ELSE hostStatuses[h]]
    /\ lastCall' = NoCall
    /\ UNCHANGED <<hosts, loading, error, hostOrder, instanceOrders, storage,
                   phase, refreshes, ops>>
    /\ UNCHANGED timerVars
    /\ UNCHANGED orderVars

\* the context hands the hook an overlay without the entry of hostId
OverlayDrop(hostId) ==
    /\ phase = "mounted"
    /\ hostId \in DOMAIN hostStatuses
    /\ hostStatuses' = [h \in DOMAIN hostStatuses \ {hostId} |-> hostStatuses[h]]
    /\ lastCall' = NoCall
    /\ UNCHANGED <<hosts, loading, error, hostOrder, instanceOrders, storage,
                   phase, refreshes, ops>>
    /\ UNCHANGED timerVars
    /\ UNCHANGED orderVars

NextView ==
    \/ \E hostId \in OverlayHostIds, entry \in OverlayEntries :
          OverlayPush(hostId, entry)
    \/ \E hostId \in OverlayHostIds : OverlayDrop(hostId)

SpecView == InitView /\ [][NextView]_vars

-----------------------------------------------------------------------------
(* applySavedOrder on every sequence of entities with unique ids and every *)
(* saved order, then on its own result                                     *)

InitOrder ==
    /\ Created(EmptyStore)
    /\ Wired(FALSE, DefaultRefreshInterval)
    /\ items \in {AsItems(ids) : ids \in UniqueSeqsUpTo(EntityIds, MaxItems)}
    /\ savedOrder \in SeqsUpTo(SavedIds, MaxSaved)
    /\ sorted = <<>>
    /\ resorted = <<>>
    /\ applied = 0

Apply ==
    /\ applied = 0
    /\ sorted' = applySavedOrder(items, savedOrder)
    /\ applied' = 1
    /\ UNCHANGED <<items, savedOrder, resorted>>
    /\ UNCHANGED engineVars

ApplyAgain ==
    /\ applied = 1
    /\ resorted' = applySavedOrder(sorted, savedOrder)
    /\ applied' = 2
    /\ UNCHANGED <<items, savedOrder, sorted>>
    /\ UNCHANGED engineVars

NextOrder == Apply \/ ApplyAgain

SpecOrder == InitOrder /\ [][NextOrder]_vars

-----------------------------------------------------------------------------
(* Refreshes and host reorders together: a session that finds a stored     *)
(* host order naming four hosts, a server whose host list loses and        *)
(* regains h1, and a user who only ever exchanges h3 and h4                *)

\* the host order the session finds in the store
SurviveOrder == <<"h1", "h2", "h3", "h4">>

\* the hosts the user exchanges
SwappedHosts == {"h3", "h4"}

SurviveStore == StoreWith(JsonStringify(SurviveOrder), <<>>)

\* the host lists getHosts resolves with: every host, or every host but h1
SurviveHostLists ==
    {[i \in DOMAIN ids |-> ServerHost(ids[i])] :
        ids \in {<<"h1", "h2", "h3", "h4">>, <<"h2", "h3", "h4">>}}

\* moveHost(hostId, direction) exchanges two hosts of S, or none at all
SwapsAmong(S, hostId, direction) ==
    LET fullOrder == FullOrder(Ids(hosts), hostOrder)
        swapIdx == SwapIndex(IndexOf(fullOrder, hostId), direction)
    IN  Movable(fullOrder, hostId, direction) =>
            hostId \in S /\ At(fullOrder, swapIdx) \in S

InitSurvive ==
    /\ Created(SurviveStore)
    /\ Wired(FALSE, DefaultRefreshInterval)
    /\ OrderUnused

\* one refresh at a time, every instance fetch resolving with no instance
NextSurvive ==
    \/ Mount
    \/ (\A r \in RefreshIds : Free(r)) /\ Refresh
    \/ \E r \in RefreshIds :
        \/ \E list \in SurviveHostLists : GetHostsOk(r, list)
        \/ \E i \in DOMAIN refreshes[r].results : InstancesOk(r, i, <<>>)
        \/ Publish(r)
    \/ \E hostId \in Range(SurviveOrder), direction \in Directions :
          SwapsAmong(SwappedHosts, hostId, direction) /\ MoveHost(hostId, direction)

SpecSurvive == InitSurvive /\ [][NextSurvive]_vars

-----------------------------------------------------------------------------
(* The hook over whatever localStorage holds under the order keys: no      *)
(* text, an array, a text cut short, null, an object.  The hook lives as   *)
(* long as its render does not throw                                       *)

StoredTexts(ids) ==
    {<<>>, JsonStringify(ids), <<"[", ids[1], ",">>, JsonNullText, JsonObjectText}

StoredStores ==
    {StoreWith(hostText, instanceText) :
        hostText \in StoredTexts(<<"h2", "h1">>),
        instanceText \in StoredTexts(<<"i1", "i2">>)}

InitStored ==
    /\ \E store \in StoredStores : Created(store)
    /\ Wired(FALSE, DefaultRefreshInterval)
    /\ OrderUnused

\* the hook is rendered: the last render returned
Rendered == ~mergedHostsThrows

NextStored ==
    \/ Rendered /\ Mount
    \/ Rendered /\ (\A r \in RefreshIds : Free(r)) /\ Refresh
    \/ \E r \in RefreshIds :
        \/ \E list \in HostLists : Rendered /\ GetHostsOk(r, list)
        \/ \E i \in DOMAIN refreshes[r].results, instances \in InstanceLists :
              Rendered /\ InstancesOk(r, i, instances)
        \/ Rendered /\ Publish(r)
    \/ \E hostId \in HostIds, direction \in Directions :
          Rendered /\ MoveHost(hostId, direction)
    \/ \E hostId \in HostIds, instanceId \in InstanceIds,
          direction \in Directions :
          Rendered /\ MoveInstance(hostId, instanceId, direction)

SpecStored == InitStored /\ [][NextStored]_vars

-----------------------------------------------------------------------------
(* Overlapping invocations of fetchData: the initial fetch, and the         *)
(* refreshes (refresh() itself, or the one of an action) called while it    *)
(* runs.  The server has the host list [h1] for the initial fetch and the   *)
(* list [h2, h1] for every later one                                        *)

\* the slot of the invocation the initial-fetch effect makes
InitialFetch == CHOOSE r \in RefreshIds : \A q \in RefreshIds : r <= q

\* what getHosts resolves with for the initial fetch
FirstList == <<ServerHost("h1")>>

\* what getHosts resolves with for an invocation called later
LaterList == <<ServerHost("h2"), ServerHost("h1")>>

NextRace ==
    \/ Mount
    \/ refreshes[InitialFetch].pc # "idle" /\ Refresh
    \/ GetHostsOk(InitialFetch, FirstList)
    \/ \E r \in RefreshIds \ {InitialFetch} : GetHostsOk(r, LaterList)
    \/ \E r \in RefreshIds :
        \/ \E i \in DOMAIN refreshes[r].results, instances \in InstanceLists :
              InstancesOk(r, i, instances)
        \/ Publish(r)
    \/ \E a \in OpIds :
        \/ \E kind \in Kinds : CallAction(a, kind)
        \/ refreshes[InitialFetch].pc # "idle" /\ AdapterOk(a)

SpecRace == Init /\ [][NextRace]_vars

-----------------------------------------------------------------------------
(* The auto-refresh effect: the hook rendered with either channel state    *)
(* and any of the configured periods, the channel going up and down, the   *)
(* argument changing, the timer ticking, the component unmounting; the     *)
(* fetches the ticks start run on after the unmount                        *)

\* the values the hook is called with for refreshInterval
RefreshIntervals == {DefaultRefreshInterval, 5000, 60000}

\* the last step was a tick of a timer
TickCall == [NoCall EXCEPT !.op = "tick"]

\* the k-th timer fires: setInterval calls fetchData
Tick(k) ==
    /\ k \in Armed
    /\ \E r \in RefreshIds : Free(r)
    /\ StartRefresh(FreeSlot)
    /\ lastCall' = TickCall
    /\ UNCHANGED <<hosts, loading, hostStatuses, hostOrder, instanceOrders,
                   storage, phase, ops>>
    /\ UNCHANGED timerVars
    /\ UNCHANGED orderVars

\* the auto-refresh effect runs again after a render with new dependencies:
\* its cleanup clears the timer it made, its body arms a new one
Rearm(connected, configured) ==
    /\ phase = "mounted"
    /\ Len(timers) < MaxTimers
    /\ routingConnected' = connected
    /\ refreshInterval' = configured
    /\ timers' = SetInterval(ClearInterval(timers), Interval(connected, configured))
    /\ lastCall' = NoCall
    /\ UNCHANGED <<hosts, loading, error, hostStatuses, hostOrder,
                   instanceOrders, storage, phase, refreshes, ops>>
    /\ UNCHANGED orderVars

\* the routing-events context reports the channel up, or down
ConnectionChange == Rearm(~routingConnected, refreshInterval)

\* the hook is rendered with another refreshInterval
IntervalChange(configured) ==
    /\ configured # refreshInterval
    /\ Rearm(routingConnected, configured)

\* the component unmounts: the cleanup of the auto-refresh effect runs
Unmount ==
    /\ phase = "mounted"
    /\ phase' = "unmounted"
    /\ timers' = ClearInterval(timers)
    /\ lastCall' = NoCall
    /\ UNCHANGED <<hosts, loading, error, hostStatuses, hostOrder,
                   instanceOrders, storage, refreshes, ops, routingConnected,
                   refreshInterval>>
    /\ UNCHANGED orderVars

InitTimer ==
    /\ Created(EmptyStore)
    /\ \E connected \in BOOLEAN, configured \in RefreshIntervals :
          Wired(connected, configured)
    /\ OrderUnused

NextTimer ==
    \/ Mount
    \/ \E k \in DOMAIN timers : Tick(k)
    \/ ConnectionChange
    \/ \E configured \in RefreshIntervals : IntervalChange(configured)
    \/ Unmount
    \/ \E r \in RefreshIds :
        \/ GetHostsOk(r, FirstList)
        \/ \E i \in DOMAIN refreshes[r].results, instances \in InstanceLists :
              InstancesOk(r, i, instances)
        \/ Publish(r)

SpecTimer == InitTimer /\ [][NextTimer]_vars

-----------------------------------------------------------------------------
(* Everything the hook offers in one session: refreshes, the start, stop   *)
(* and restart operations, moveHost and moveInstance, over a store that    *)
(* holds no order or a host order and the instance order of h1             *)

\* a refresh at a time, restartInstance standing for the three operations,
\* every rejection throwing a value that is no Error, the reorder calls
\* given live ids
NextFrame ==
    \/ Mount
    \/ (\A r \in RefreshIds : Free(r)) /\ Refresh
    \/ \E r \in RefreshIds :
        \/ \E list \in HostLists : GetHostsOk(r, list)
        \/ GetHostsFail(r, NotAnError)
        \/ \E i \in DOMAIN refreshes[r].results, instances \in InstanceLists :
              InstancesOk(r, i, instances)
        \/ Publish(r)
    \/ \E a \in OpIds :
        \/ CallAction(a, "restart")
        \/ (\A r \in RefreshIds : Free(r)) /\ AdapterOk(a)
        \/ AdapterFail(a, NotAnError)
    \/ \E hostId \in HostIds, direction \in Directions :
          MoveHost(hostId, direction)
    \/ \E hostId \in HostIds, instanceId \in InstanceIds,
          direction \in Directions :
          MoveInstance(hostId, instanceId, direction)

InitFrame ==
    /\ \E store \in ViewStores : Created(store)
    /\ Wired(FALSE, DefaultRefreshInterval)
    /\ OrderUnused

SpecFrame == InitFrame /\ [][NextFrame]_vars

-----------------------------------------------------------------------------
(* The invocations of fetchData under an adapter whose every call settles: *)
(* the event loop serves every settled promise, so a step that stays       *)
(* possible is taken.  What a rejected call throws is a value that is no   *)
(* Error                                                                   *)

\* getHosts() of invocation r settles
GetHostsSettles(r) ==
    \/ \E list \in HostLists : GetHostsOk(r, list)
    \/ GetHostsFail(r, NotAnError)

\* getHostInstances() of the i-th host of invocation r settles
InstancesSettle(r, i) ==
    \/ \E instances \in InstanceLists : InstancesOk(r, i, instances)
    \/ InstancesFail(r, i, NotAnError)

NextLive ==
    \/ Mount
    \/ Refresh
    \/ \E r \in RefreshIds :
        \/ \E list \in HostLists : GetHostsOk(r, list)
        \/ GetHostsFail(r, NotAnError)
        \/ \E i \in 1..Cardinality(HostIds) :
            \/ \E instances \in InstanceLists : InstancesOk(r, i, instances)
            \/ InstancesFail(r, i, NotAnError)
        \/ Publish(r)

\* every adapter call settles, and the continuation of a settled
\* Promise.all runs
EveryCallSettles ==
    \A r \in RefreshIds :
        /\ WF_vars(GetHostsSettles(r))
        /\ \A i \in 1..Cardinality(HostIds) : WF_vars(InstancesSettle(r, i))
        /\ WF_vars(Publish(r))

SpecLive == Init /\ [][NextLive]_vars /\ EveryCallSettles

-----------------------------------------------------------------------------
(* Claims about applySavedOrder *)

\* the subsequence of s of the elements in set keep
Restrict(s, keep) == SelectSeq(s, LAMBDA x : x \in keep)

IsPermutation(a, b) ==
    /\ Len(a) = Len(b)
    /\ \E f \in [DOMAIN a -> DOMAIN b] :
        /\ \A i, j \in DOMAIN a : f[i] = f[j] => i = j
        /\ \A i \in DOMAIN a : a[i] = b[f[i]]

\* C1: for every sequence E of entities with unique ids and every saved
\* order S, applySavedOrder(E, S) is a permutation of E, every entity whose
\* id is not in S comes after every entity whose id is in S, the entities
\* whose id is not in S keep the relative order they had in E, and the
\* result is E itself when S is empty.
C1_OrderContract ==
    applied >= 1 =>
        /\ IsPermutation(sorted, items)
        /\ \A i, j \in DOMAIN sorted :
              (sorted[i].id \in Range(savedOrder)
                 /\ sorted[j].id \notin Range(savedOrder)) => i < j
        /\ Restrict(Ids(sorted), EntityIds \ Range(savedOrder))
              = Restrict(Ids(items), EntityIds \ Range(savedOrder))
        /\ (savedOrder = <<>> => sorted = items)

\* the saved order names h2 alone: h1 and h3 follow it, in their old order
C1_Witness ==
    /\ applied >= 1
    /\ Ids(items) = <<"h1", "h2", "h3">>
    /\ savedOrder = <<"h2">>
    /\ Ids(sorted) = <<"h2", "h1", "h3">>

\* the saved order with, of every id it repeats, the last occurrence only
LastOccurrences(order) ==
    LET keep == {i \in DOMAIN order :
                    \A j \in DOMAIN order : j > i => order[j] # order[i]}
        F[i \in 0..Len(order)] ==
            IF i = 0 THEN <<>>
            ELSE IF i \in keep THEN Append(F[i - 1], order[i]) ELSE F[i - 1]
    IN  F[Len(order)]

\* C2 as stated: the ids of the result restricted to the ids of S equal S
\* restricted to the ids of E, for every saved order S.
C2_AsStated ==
    applied >= 1 =>
        Restrict(Ids(sorted), Range(savedOrder))
            = Restrict(savedOrder, Range(Ids(items)))

\* C2: the ids of the result restricted to the ids of S equal S restricted
\* to the ids of E with, of every id S repeats, only the last occurrence
\* kept; for a saved order without a repeated id that is S restricted to
\* the ids of E.  Saved ids without a live entity are ignored.
C2_SavedOrderRespected ==
    applied >= 1 =>
        Restrict(Ids(sorted), Range(savedOrder))
            = Restrict(LastOccurrences(savedOrder), Range(Ids(items)))

\* the scenario of the specification, with the id of a vanished entity in
\* the saved order
C2_Witness ==
    /\ applied >= 1
    /\ Ids(items) = <<"h1", "h3", "h2">>
    /\ savedOrder = <<"h2", "gone", "h1">>
    /\ Ids(sorted) = <<"h2", "h1", "h3">>

\* C3: applying applySavedOrder to its own result with the same saved
\* order gives the result of applying it once.
C3_Idempotent ==
    applied = 2 => resorted = sorted

\* a saved order that moves entities, applied twice
C3_Witness ==
    /\ applied = 2
    /\ Ids(items) = <<"h1", "h3", "h2">>
    /\ savedOrder = <<"h2">>
    /\ Ids(sorted) = <<"h2", "h1", "h3">>
    /\ resorted = sorted

-----------------------------------------------------------------------------
(* Claims about fetchData and the action operations *)

\* invocation r of fetchData publishes in this step
Publishes(r) == refreshes[r].pc = "instances" /\ refreshes'[r].pc = "idle"

\* the host-list fetch of invocation r fails in this step
HostListFails(r) == refreshes[r].pc = "getHosts" /\ refreshes'[r].pc = "idle"

\* invocation r of fetchData is started in this step
Starts(r) == refreshes[r].pc = "idle" /\ refreshes'[r].pc = "getHosts"

InFlight(r) == refreshes[r].pc \in {"getHosts", "instances"}

SomeFetchFailed(r) ==
    \E i \in DOMAIN refreshes[r].results : refreshes[r].results[i].state = "failed"

\* C5: a refresh whose host list was fetched and whose instance fetch failed
\* for some hosts still publishes: once every fetch has settled the publish
\* is the next step of that refresh, the published snapshot holds every host
\* of the fetched list in its order, a host whose fetch succeeded carries
\* exactly the fetched instances, a host whose fetch failed carries none,
\* and the publish leaves last-error as it was.
C5_IsolatedFailure ==
    /\ [](\A r \in RefreshIds :
            (refreshes[r].pc = "instances" /\ AllSettled(r)) => ENABLED Publish(r))
    /\ [][\A r \in RefreshIds :
            (Publishes(r) /\ SomeFetchFailed(r)) =>
                LET data == refreshes[r].hostsData
                    res == refreshes[r].results
                IN  /\ Len(hosts') = Len(data)
                    /\ \A i \in DOMAIN data :
                          /\ hosts'[i].id = data[i].id
                          /\ hosts'[i].name = data[i].name
                          /\ hosts'[i].status = data[i].status
                          /\ hosts'[i].memory = data[i].memory
                          /\ res[i].state = "ok" =>
                                hosts'[i].instances = res[i].fetched
                          /\ res[i].state = "failed" =>
                                hosts'[i].instances = <<>>
                    /\ error' = error]_vars

\* hosts [h2, h1] were fetched, the instance fetch of h2 failed: h2 is
\* published without instances, h1 with its own, and no error is set
C5_Witness ==
    /\ Ids(hosts) = <<"h2", "h1">>
    /\ hosts[1].instances = <<>>
    /\ Ids(hosts[2].instances) = <<"i2", "i1">>
    /\ error = Null
    /\ loading = FALSE

\* C6: when the host-list fetch of a refresh fails with an Error, the
\* refresh sets last-error to its message (to the generic message when what
\* was thrown is no Error) and leaves the canonical snapshot as it was; and
\* no other step sets last-error to a value that is not null.
C6_StaleButAvailable ==
    [][/\ \A r \in RefreshIds :
            HostListFails(r) =>
                /\ lastCall'.op = "getHosts rejected"
                /\ lastCall'.failure.isError =>
                        error' = lastCall'.failure.message
                /\ ~lastCall'.failure.isError =>
                        error' = "Failed to fetch data"
                /\ hosts' = hosts
       /\ (error' # error /\ error' # Null) =>
            \E r \in RefreshIds : HostListFails(r)]_vars

\* a snapshot was published, then a host-list fetch failed with a message:
\* the message is the last error and the snapshot is still there
C6_Witness ==
    /\ lastCall.op = "getHosts rejected"
    /\ lastCall.failure.isError
    /\ error = "connection refused"
    /\ Ids(hosts) = <<"h2", "h1">>
    /\ loading = FALSE

\* C7: when the adapter call of startInstance, stopInstance or
\* restartInstance fails with an Error of message m, the operation fails
\* with an Error of message m, no refresh is started, and the canonical
\* snapshot, last-error and the loading flag stay as they were.
C7_ActionFailure ==
    [][\A a \in OpIds :
        (ops[a].pc = "adapter" /\ ops'[a].pc = "rejected") =>
            /\ lastCall'.op = "action rejected"
            /\ lastCall'.failure.isError =>
                    ops'[a].thrown = lastCall'.failure.message
            /\ refreshes' = refreshes
            /\ hosts' = hosts
            /\ error' = error
            /\ loading' = loading]_vars

\* startInstance failed with "connection refused" while an error and a
\* snapshot were there: both are still there
C7_Witness ==
    /\ lastCall.op = "action rejected"
    /\ ops[1].pc = "rejected"
    /\ ops[1].kind = "start"
    /\ ops[1].thrown = "connection refused"
    /\ error = "Failed to fetch data"
    /\ Ids(hosts) = <<"h1">>
    /\ \A r \in RefreshIds : ~InFlight(r)

\* C8: when the adapter call of an action completes successfully the
\* operation starts exactly one refresh in that step and awaits it; while
\* it awaits, that refresh is in flight; and it returns only in the step in
\* which that refresh completes (publishes, or records the error).
C8_ActionAwaitsRefresh ==
    /\ [](\A a \in OpIds :
            ops[a].pc = "refreshing" =>
                ops[a].refresh \in RefreshIds /\ InFlight(ops[a].refresh))
    /\ [][\A a \in OpIds :
            /\ (ops[a].pc = "adapter" /\ ops'[a].pc \notin {"adapter", "rejected"}) =>
                  /\ ops'[a].pc = "refreshing"
                  /\ Starts(ops'[a].refresh)
                  /\ \A r \in RefreshIds :
                        r # ops'[a].refresh => refreshes'[r] = refreshes[r]
            /\ ops[a].pc = "refreshing" =>
                  \/ ops'[a] = ops[a]
                  \/ /\ ops'[a].pc = "resolved"
                     /\ Publishes(ops[a].refresh) \/ HostListFails(ops[a].refresh)
            /\ (ops'[a].pc = "resolved" /\ ops[a].pc # "resolved") =>
                  ops[a].pc = "refreshing"]_vars

\* an action has returned after the refresh it started published
C8_Witness ==
    /\ ops[1].pc = "resolved"
    /\ Ids(hosts) = <<"h2", "h1">>
    /\ error = Null
    /\ \A r \in RefreshIds : ~InFlight(r)

-----------------------------------------------------------------------------
(* Claims about moveHost and moveInstance *)

\* the sequence s with the elements at positions i and j exchanged
Exchanged(s, i, j) == [s EXCEPT ![i] = s[j], ![j] = s[i]]

\* the position next to k in the direction of the move
Neighbour(k, direction) == IF direction = "up" THEN k - 1 ELSE k + 1

\* the full effective order of the hosts: the in-memory host order applied
\* to the hosts of the snapshot
EffectiveHostOrder == Ids(applySavedOrder(hosts, hostOrder))

\* the full effective order of the instances of a host of the snapshot: its
\* cached order, else its stored order, applied to its instances
EffectiveInstanceOrder(hostId) ==
    Ids(applySavedOrder(FindHost(hostId).instances,
                        IF hostId \in DOMAIN instanceOrders
                        THEN instanceOrders[hostId]
                        ELSE readInstanceOrder(storage, hostId)))

\* C9: a moveHost(id, dir) or moveInstance(host, id, dir) whose id is at
\* position k of the full effective order of its sibling set, with the
\* neighbour position in bounds, stores and caches exactly that order with
\* positions k and the neighbour exchanged.
C9_ReorderSwap ==
    [][/\ lastCall'.op = "moveHost" =>
            \A k \in DOMAIN EffectiveHostOrder :
                (/\ EffectiveHostOrder[k] = lastCall'.hostId
                 /\ Neighbour(k, lastCall'.direction) \in DOMAIN EffectiveHostOrder) =>
                    LET new == Exchanged(EffectiveHostOrder, k,
                                         Neighbour(k, lastCall'.direction))
                    IN  /\ hostOrder' = new
                        /\ lastCall'.wrote = HOST_ORDER_KEY
                        /\ HOST_ORDER_KEY \in DOMAIN storage'
                        /\ storage'[HOST_ORDER_KEY] = JsonStringify(new)
                        /\ readHostOrder(storage') = new
       /\ (lastCall'.op = "moveInstance" /\ HasHost(lastCall'.hostId)) =>
            LET h == lastCall'.hostId
                eff == EffectiveInstanceOrder(h)
            IN  \A k \in DOMAIN eff :
                  (/\ eff[k] = lastCall'.instanceId
                   /\ Neighbour(k, lastCall'.direction) \in DOMAIN eff) =>
                      LET new == Exchanged(eff, k, Neighbour(k, lastCall'.direction))
                      IN  /\ h \in DOMAIN instanceOrders'
                          /\ instanceOrders'[h] = new
                          /\ lastCall'.wrote = InstanceOrderKey(h)
                          /\ InstanceOrderKey(h) \in DOMAIN storage'
                          /\ storage'[InstanceOrderKey(h)] = JsonStringify(new)
                          /\ readInstanceOrder(storage', h) = new]_vars

\* the scenario of the specification: i2 moved up in [i1, i2, i3]
C9_Witness ==
    /\ lastCall = ReorderCall("moveInstance", "h1", "i2", "up", InstanceOrderKey("h1"))
    /\ Ids(FindHost("h1").instances) = <<"i1", "i2", "i3">>
    /\ instanceOrders = [h \in {"h1"} |-> <<"i2", "i1", "i3">>]
    /\ readInstanceOrder(storage, "h1") = <<"i2", "i1", "i3">>

\* a host moved down past a host the saved order did not hold
C9_WitnessHost ==
    /\ lastCall = ReorderCall("moveHost", "h1", Null, "down", HOST_ORDER_KEY)
    /\ Ids(hosts) = <<"h1", "h2", "h3">>
    /\ hostOrder = <<"h2", "h3", "h1">>
    /\ readHostOrder(storage) = <<"h2", "h3", "h1">>

\* C10: moving the first entity of a sibling set up, the last one down, or
\* an id that is not in the sibling set (moveInstance on a host that is not
\* in the snapshot included) writes nothing to the store and leaves the
\* store, the host order and the instance orders as they were.
C10_ReorderNoOp ==
    [][LET eff == IF lastCall'.op = "moveHost" THEN EffectiveHostOrder
                  ELSE IF lastCall'.op = "moveInstance" /\ HasHost(lastCall'.hostId)
                  THEN EffectiveInstanceOrder(lastCall'.hostId)
                  ELSE <<>>
           id == IF lastCall'.op = "moveHost" THEN lastCall'.hostId
                 ELSE lastCall'.instanceId
       IN  (/\ lastCall'.op \in {"moveHost", "moveInstance"}
            /\ \/ \A k \in DOMAIN eff : eff[k] # id
               \/ eff[1] = id /\ lastCall'.direction = "up"
               \/ eff[Len(eff)] = id /\ lastCall'.direction = "down") =>
                /\ lastCall'.wrote = <<>>
                /\ storage' = storage
                /\ hostOrder' = hostOrder
                /\ instanceOrders' = instanceOrders]_vars

\* h2 is first in the effective order [h2, h1, h3] and is moved up
C10_Witness ==
    /\ lastCall = ReorderCall("moveHost", "h2", Null, "up", <<>>)
    /\ Ids(hosts) = <<"h1", "h2", "h3">>
    /\ hostOrder = <<"h2", "h1">>
    /\ readHostOrder(storage) = <<"h2", "h1">>

-----------------------------------------------------------------------------
(* Claims about the effective view *)

\* the host of the effective view with the given id
ViewHost(id) ==
    mergedHosts[CHOOSE i \in DOMAIN mergedHosts : mergedHosts[i].id = id]

InView(id) == \E i \in DOMAIN mergedHosts : mergedHosts[i].id = id

\* C4 as stated: a host with an overlay entry is reported with the entry's
\* status and the entry's memory whatever they are, and with the canonical
\* value of every other field; a host without one with its canonical values.
C4_AsStated ==
    \A i \in DOMAIN hosts :
        LET host == hosts[i]
        IN  /\ InView(host.id)
            /\ IF host.id \in DOMAIN hostStatuses
               THEN /\ ViewHost(host.id).status = hostStatuses[host.id].status
                    /\ ViewHost(host.id).memory = hostStatuses[host.id].memory
                    /\ ViewHost(host.id).name = host.name
                    /\ ViewHost(host.id).instances = host.instances
               ELSE ViewHost(host.id) = host

\* C4: a host with an overlay entry is reported with the entry's status,
\* with the entry's memory when the entry carries one and with the canonical
\* memory when it carries none, and with its canonical name; a host without
\* an entry is reported with its canonical status, memory and name; either
\* way its instances are the canonical ones, in the order its saved
\* instance order gives them.
C4_OverlayPrecedence ==
    \A i \in DOMAIN hosts :
        LET host == hosts[i]
            saved == IF host.id \in DOMAIN instanceOrders
                     THEN instanceOrders[host.id]
                     ELSE readInstanceOrder(storage, host.id)
        IN  /\ InView(host.id)
            /\ ViewHost(host.id).name = host.name
            /\ IsPermutation(ViewHost(host.id).instances, host.instances)
            /\ ViewHost(host.id).instances = applySavedOrder(host.instances, saved)
            /\ IF host.id \in DOMAIN hostStatuses
               THEN /\ ViewHost(host.id).status = hostStatuses[host.id].status
                    /\ ViewHost(host.id).memory =
                          IF hostStatuses[host.id].memory # Undefined
                          THEN hostStatuses[host.id].memory
                          ELSE host.memory
               ELSE /\ ViewHost(host.id).status = host.status
                    /\ ViewHost(host.id).memory = host.memory

\* h1 is pulled as stopped, the overlay says running and carries no memory:
\* the view reports running and the pulled memory; h2 has no entry
C4_Witness ==
    /\ Ids(hosts) = <<"h1", "h2">>
    /\ hosts[1].status = "stopped"
    /\ DOMAIN hostStatuses = {"h1", "gone"}
    /\ hostStatuses["h1"] = [status |-> "running", memory |-> Undefined]
    /\ ViewHost("h1").status = "running"
    /\ ViewHost("h1").memory = "pulled"
    /\ ViewHost("h2") = hosts[2]

-----------------------------------------------------------------------------
(* Claims about the saved order across refreshes and reorders *)

\* the position of a host in the effective view, 0 when it is not there
ViewPosition(id) ==
    IF InView(id)
    THEN CHOOSE i \in DOMAIN mergedHosts : mergedHosts[i].id = id
    ELSE 0

\* the position of an id in an order it occurs in
PositionIn(order, id) == CHOOSE i \in DOMAIN order : order[i] = id

\* C11 as stated: across refreshes in which hosts leave and come back and
\* across reorders, two hosts of the saved order that no reorder ever
\* exchanged are in the effective view, whenever both are there, in the
\* relative order the saved order gave them.
C11_AsStated ==
    \A a, b \in Range(SurviveOrder) \ SwappedHosts :
        (/\ InView(a)
         /\ InView(b)
         /\ PositionIn(SurviveOrder, a) < PositionIn(SurviveOrder, b)) =>
            ViewPosition(a) < ViewPosition(b)

\* C12: in the state right after a moveHost that changed the order the
\* in-memory host order is the order just written to the store and the
\* ids of the effective view, in sequence, are that order; in the state
\* right after a moveInstance that changed the order the cached order of
\* that host is the order just written to the store and the ids of the
\* instances the effective view shows for that host, in sequence, are that
\* order.
C12_ReorderReflected ==
    /\ (lastCall.op = "moveHost" /\ lastCall.wrote # <<>>) =>
          /\ lastCall.wrote \in DOMAIN storage
          /\ storage[lastCall.wrote] = JsonStringify(hostOrder)
          /\ hostOrder = readHostOrder(storage)
          /\ Ids(mergedHosts) = readHostOrder(storage)
    /\ (lastCall.op = "moveInstance" /\ lastCall.wrote # <<>>) =>
          LET h == lastCall.hostId
          IN  /\ lastCall.wrote \in DOMAIN storage
              /\ h \in DOMAIN instanceOrders
              /\ storage[lastCall.wrote] = JsonStringify(instanceOrders[h])
              /\ instanceOrders[h] = readInstanceOrder(storage, h)
              /\ InView(h)
              /\ Ids(ViewHost(h).instances) = readInstanceOrder(storage, h)

\* h1 was moved down past h3, a host the stored order [h2, h1] did not
\* hold: store, in-memory order and view all read [h2, h3, h1]
C12_Witness ==
    /\ lastCall = ReorderCall("moveHost", "h1", Null, "down", HOST_ORDER_KEY)
    /\ Ids(hosts) = <<"h1", "h2", "h3">>
    /\ hostOrder = <<"h2", "h3", "h1">>
    /\ readHostOrder(storage) = <<"h2", "h3", "h1">>
    /\ Ids(mergedHosts) = <<"h2", "h3", "h1">>

-----------------------------------------------------------------------------
(* Claims about the order store *)

\* the text under the key is no array of ids: there is none, it is cut
\* short, or JSON.parse makes of it a value that is no array
NoStoredOrder(store, key) ==
    key \in DOMAIN store => ~JsonWellFormed(store[key])

\* C13 as stated: whatever is stored under an order key (nothing, a text
\* that does not parse, a text that parses to something that is no
\* sequence of ids), readHostOrder and readInstanceOrder give the empty
\* sequence, and the derivation of the effective view does not fail.
C13_AsStated ==
    /\ NoStoredOrder(storage, HOST_ORDER_KEY) => readHostOrder(storage) = <<>>
    /\ \A h \in HostIds :
          NoStoredOrder(storage, InstanceOrderKey(h)) =>
              readInstanceOrder(storage, h) = <<>>
    /\ ~mergedHostsThrows

-----------------------------------------------------------------------------
(* Claims about concurrent invocations of fetchData *)

\* C14 as stated: in the state right after an invocation of fetchData
\* published its snapshot last-error is unset, whatever other invocations
\* did while it ran.
C14_AsStated ==
    [][\A r \in RefreshIds : Publishes(r) => error' = Null]_vars

\* C15: refresh() is never held back, merged with or queued behind an
\* invocation in flight: a call made while the initial fetch runs starts an
\* invocation of its own at once (as long as the model has a slot to follow
\* it) and leaves the ones in flight where they are; every invocation that
\* publishes makes its own result the canonical snapshot, whatever was
\* published before, and nothing else changes the snapshot: of two
\* overlapping invocations the last to resolve wins.
C15_LastToResolveWins ==
    /\ []((phase = "mounted" /\ InFlight(InitialFetch)
              /\ \E r \in RefreshIds : Free(r)) => ENABLED Refresh)
    /\ [][/\ \A r \in RefreshIds :
                Starts(r) =>
                    \A q \in RefreshIds \ {r} : refreshes'[q] = refreshes[q]
          /\ \A r \in RefreshIds :
                Publishes(r) =>
                    hosts' = HostsWithInstances(refreshes[r].results)
          /\ hosts' # hosts => \E r \in RefreshIds : Publishes(r)]_vars

\* the refresh of an action, called while the initial fetch ran, has
\* published [h2, h1] and the action has returned; the initial fetch resolved
\* after it, and its older list [h1] is the canonical snapshot
C15_Witness ==
    /\ ops[1].pc = "resolved"
    /\ \A r \in RefreshIds : ~InFlight(r)
    /\ Ids(hosts) = <<"h1">>
    /\ loading = FALSE

\* a host as one refresh gives it: the host of a getHosts response with an
\* instance list getHostInstances resolved with, or with none
CompleteHost(host, listed) ==
    /\ host.id = listed.id
    /\ host.name = listed.name
    /\ host.status = listed.status
    /\ host.memory = listed.memory
    /\ host.instances \in InstanceLists \cup {<<>>}

\* C16: the canonical snapshot changes only in the step in which one
\* invocation of fetchData publishes, every per-host fetch of that
\* invocation has settled by then, and the new snapshot is, host for host in
\* the order of its getHosts response, that host with the instances fetched
\* for it by that invocation, or with none when its fetch failed; so in
\* every state the snapshot is empty or the whole host list of one getHosts
\* response, each host with a whole instance list or with none.
C16_AtomicPublish ==
    /\ [](\/ hosts = <<>>
          \/ \E list \in HostLists :
                /\ Len(hosts) = Len(list)
                /\ \A i \in DOMAIN list : CompleteHost(hosts[i], list[i]))
    /\ [][hosts' # hosts =>
            \E r \in RefreshIds :
                LET data == refreshes[r].hostsData
                    res == refreshes[r].results
                IN  /\ Publishes(r)
                    /\ \A q \in RefreshIds \ {r} : refreshes'[q] = refreshes[q]
                    /\ \A i \in DOMAIN res : res[i].state # "pending"
                    /\ Len(hosts') = Len(data)
                    /\ \A i \in DOMAIN data :
                          hosts'[i] =
                            WithInstances(data[i],
                                          IF res[i].state = "ok"
                                          THEN res[i].fetched ELSE <<>>)]_vars

\* a refresh has fetched [h2, h1] and the instances of h2, the fetch for h1
\* is pending, a second refresh is in flight as well: the snapshot is still
\* the whole one published before, [h1] with its instances
C16_Witness ==
    /\ Ids(hosts) = <<"h1">>
    /\ Ids(hosts[1].instances) = <<"i2", "i1">>
    /\ \A r \in RefreshIds : InFlight(r)
    /\ \E r \in RefreshIds :
          /\ refreshes[r].pc = "instances"
          /\ Ids(refreshes[r].hostsData) = <<"h2", "h1">>
          /\ refreshes[r].results[1].state = "ok"
          /\ refreshes[r].results[2].state = "pending"

-----------------------------------------------------------------------------
(* Claims about the loading flag *)

\* invocation r of fetchData completes in this step, publishing or failing
Completes(r) == Publishes(r) \/ HostListFails(r)

\* C17: loading is true when the hook is created and stays true until an
\* invocation of fetchData completes; it is false right after every
\* completion, successful or failed; and once false it is never true again,
\* whatever refreshes are started or in flight.
C17_LoadingFlag ==
    /\ [](phase = "created" => loading)
    /\ [][/\ (\E r \in RefreshIds : Completes(r)) => loading' = FALSE
          /\ (\A r \in RefreshIds : ~Completes(r)) => loading' = loading
          /\ loading = FALSE => loading' = FALSE]_vars

\* the first completion was a failure (no snapshot was ever published), a
\* later refresh is in flight and has cleared the error: loading is false
C17_Witness ==
    /\ loading = FALSE
    /\ hosts = <<>>
    /\ error = Null
    /\ \E r \in RefreshIds : refreshes[r].pc = "instances"

-----------------------------------------------------------------------------
(* Claims about the auto-refresh timer and the initial fetch *)

\* the period of the one armed timer
ArmedInterval == timers[CHOOSE k \in Armed : TRUE].interval

\* C18: from the moment the effects of the first render have run until the
\* component unmounts exactly one timer is armed, and its period is the one
\* the current channel state and the current refreshInterval select; a
\* change of either clears that timer and arms a new one; once the
\* component is unmounted no timer is armed, no tick can come, and no tick
\* starts a refresh.
C18_TimerDiscipline ==
    /\ [](phase = "mounted" =>
            /\ Cardinality(Armed) = 1
            /\ ArmedInterval = IF routingConnected THEN refreshInterval
                               ELSE DisconnectedInterval)
    /\ [](phase = "unmounted" =>
            /\ Armed = {}
            /\ \A k \in DOMAIN timers : ~ENABLED Tick(k))
    /\ [][/\ (/\ phase = "mounted"
              /\ routingConnected' # routingConnected
                    \/ refreshInterval' # refreshInterval) =>
                /\ Len(timers') = Len(timers) + 1
                /\ \A k \in DOMAIN timers : ~timers'[k].armed
                /\ timers'[Len(timers')].armed
          /\ lastCall'.op = "tick" => phase = "mounted"
          /\ phase = "unmounted" => timers' = timers]_vars

\* the channel came up and the component unmounted while a fetch was in
\* flight: the timer of the first render and the one armed when the channel
\* came up are both cleared, the fetch runs on
C18_Witness ==
    /\ phase = "unmounted"
    /\ Len(timers) = 2
    /\ timers[1] = [interval |-> DisconnectedInterval, armed |-> FALSE]
    /\ timers[2] = [interval |-> DefaultRefreshInterval, armed |-> FALSE]
    /\ \E r \in RefreshIds : InFlight(r)

C20_InitialRefresh ==
    /\ [](phase = "created" =>
            /\ ENABLED Mount
            /\ Armed = {}
            /\ \A r \in RefreshIds : Free(r)
            /\ \A k \in DOMAIN timers : ~ENABLED Tick(k))
    /\ [][(phase = "created" /\ phase' # "created") =>
            /\ Starts(InitialFetch)
            /\ lastCall'.op # "tick"
            /\ phase' = "mounted"]_vars

\* the hook was rendered with the channel up and a period of a minute: the
\* initial fetch is in flight, nothing has completed, no tick has come
C20_Witness ==
    /\ phase = "mounted"
    /\ routingConnected
    /\ refreshInterval = 60000
    /\ timers = <<[interval |-> 60000, armed |-> TRUE]>>
    /\ refreshes[InitialFetch].pc = "getHosts"
    /\ \A r \in RefreshIds \ {InitialFetch} : Free(r)
    /\ loading
    /\ lastCall = NoCall

-----------------------------------------------------------------------------
(* Claims about the two places that look a saved order up *)

\* the full order moveHost computes before it swaps
MoveHostFullOrder == FullOrder(Ids(hosts), hostOrder)

\* the full order moveInstance computes for a host before it swaps
MoveInstanceFullOrder(hostId) ==
    FullOrder(Ids(FindHost(hostId).instances),
              SavedInstanceOrder(instanceOrders, storage, hostId))

\* C21: whenever the hook is rendered, the full order moveHost computes is
\* the id sequence of the effective view, and for every host the full order
\* moveInstance computes (cached order, else stored order, applied to the
\* ids of its instances) is the id sequence of the instances the view shows
\* for that host; and a move that writes exchanges, in the id sequence the
\* view showed, the position at which the view showed the moved entity with
\* its neighbour.
C21_LookupPathsAgree ==
    /\ [](Rendered =>
            /\ MoveHostFullOrder = Ids(mergedHosts)
            /\ \A k \in DOMAIN mergedHosts :
                  MoveInstanceFullOrder(mergedHosts[k].id)
                      = Ids(mergedHosts[k].instances))
    /\ [][/\ (lastCall'.op = "moveHost" /\ lastCall'.wrote # <<>>) =>
                LET shown == Ids(mergedHosts)
                IN  \E k \in DOMAIN shown :
                      /\ shown[k] = lastCall'.hostId
                      /\ Neighbour(k, lastCall'.direction) \in DOMAIN shown
                      /\ hostOrder' =
                            Exchanged(shown, k, Neighbour(k, lastCall'.direction))
          /\ (lastCall'.op = "moveInstance" /\ lastCall'.wrote # <<>>) =>
                LET shown == Ids(ViewHost(lastCall'.hostId).instances)
                IN  \E k \in DOMAIN shown :
                      /\ shown[k] = lastCall'.instanceId
                      /\ Neighbour(k, lastCall'.direction) \in DOMAIN shown
                      /\ instanceOrders'[lastCall'.hostId] =
                            Exchanged(shown, k, Neighbour(k, lastCall'.direction))]_vars

\* the snapshot is [h2, h1], each host with [i2, i1]; h1 has the stored
\* order [i1, i2] and no cached one, h2 the cached order [i1, i2]; h2 was
\* just moved down: the view reads [h1, h2], each host with [i1, i2]
C21_Witness ==
    /\ Rendered
    /\ lastCall = ReorderCall("moveHost", "h2", Null, "down", HOST_ORDER_KEY)
    /\ Ids(hosts) = <<"h2", "h1">>
    /\ Ids(mergedHosts) = <<"h1", "h2">>
    /\ DOMAIN instanceOrders = {"h2"}
    /\ instanceOrders["h2"] = <<"i1", "i2">>
    /\ readInstanceOrder(storage, "h1") = <<"i1", "i2">>
    /\ Ids(hosts[2].instances) = <<"i2", "i1">>
    /\ Ids(ViewHost("h1").instances) = <<"i1", "i2">>
    /\ Ids(ViewHost("h2").instances) = <<"i1", "i2">>

-----------------------------------------------------------------------------
(* Claims about the map of cached instance orders *)

\* C22 as stated: once the instance order of a host has been looked up
\* from the store (the effective view is derived for every host of the
\* snapshot each time the hook is rendered) the map of cached instance
\* orders holds an entry for that host, and a lookup for a host that has an
\* entry gives the entry, not what the store holds.
C22_AsStated ==
    (Rendered /\ phase = "mounted") =>
        /\ \A i \in DOMAIN hosts : hosts[i].id \in DOMAIN instanceOrders
        /\ \A h \in DOMAIN instanceOrders :
              SavedInstanceOrder(instanceOrders, storage, h) = instanceOrders[h]

-----------------------------------------------------------------------------
(* Claims about what each operation leaves alone *)

\* the orders of the hosts in S, stored and cached, are after the step what
\* they were before it
InstanceOrdersKept(S) ==
    \A g \in S :
        /\ readInstanceOrder(storage', g) = readInstanceOrder(storage, g)
        /\ InstanceOrderKey(g) \in DOMAIN storage'
              <=> InstanceOrderKey(g) \in DOMAIN storage
        /\ g \in DOMAIN instanceOrders' <=> g \in DOMAIN instanceOrders
        /\ g \in DOMAIN instanceOrders => instanceOrders'[g] = instanceOrders[g]

\* the host order, stored and in memory, is after the step what it was
HostOrderKept ==
    /\ hostOrder' = hostOrder
    /\ readHostOrder(storage') = readHostOrder(storage)
    /\ HOST_ORDER_KEY \in DOMAIN storage' <=> HOST_ORDER_KEY \in DOMAIN storage

\* C23: a moveInstance on host h leaves the host order and the stored and
\* cached instance order of every other host as they were; a moveHost
\* leaves every instance order as it was; neither changes the snapshot, the
\* loading flag or last-error, and neither starts, advances or ends an
\* invocation of fetchData or of an operation; every other step (of a
\* refresh, of start, stop or restart) leaves the store, the host order and
\* the cached instance orders as they were.
C23_OrderIsolation ==
    [][/\ lastCall'.op = "moveInstance" =>
            /\ HostOrderKept
            /\ InstanceOrdersKept(HostIds \ {lastCall'.hostId})
            /\ UNCHANGED <<hosts, loading, error, refreshes, ops>>
       /\ lastCall'.op = "moveHost" =>
            /\ InstanceOrdersKept(HostIds)
            /\ instanceOrders' = instanceOrders
            /\ UNCHANGED <<hosts, loading, error, refreshes, ops>>
       /\ lastCall'.op \notin {"moveInstance", "moveHost"} =>
            UNCHANGED <<storage, hostOrder, instanceOrders>>]_vars

\* the store held the host order [h2, h1] and the instance order [i2, i1]
\* of h1; h1 was moved up and its instances exchanged, and now an instance
\* of h2 was moved while a refresh was in flight: the orders of h1 and of
\* the hosts are what they were before that move
C23_Witness ==
    /\ lastCall = ReorderCall("moveInstance", "h2", "i2", "down",
                              InstanceOrderKey("h2"))
    /\ readHostOrder(storage) = <<"h1", "h2">>
    /\ hostOrder = <<"h1", "h2">>
    /\ readInstanceOrder(storage, "h1") = <<"i1", "i2">>
    /\ readInstanceOrder(storage, "h2") = <<"i1", "i2">>
    /\ instanceOrders = [h \in {"h1", "h2"} |-> <<"i1", "i2">>]
    /\ \E r \in RefreshIds : InFlight(r)

-----------------------------------------------------------------------------
(* Claims about what a failed refresh does to its caller *)

\* C24: an invocation of fetchData ends only by publishing (whatever
\* per-host fetches failed) or by recording the failure of its host-list
\* fetch, and either way it returns to its caller: an operation awaiting it
\* is never rejected while it awaits, and in the step in which the
\* invocation ends the operation returns without an Error; when the
\* invocation ends by a failed host-list fetch the failure is in last-error
\* and nowhere else, the snapshot being left as it was.
C24_RefreshNeverFails ==
    [][/\ \A r \in RefreshIds :
            (InFlight(r) /\ refreshes'[r].pc = "idle") => Completes(r)
       /\ \A a \in OpIds :
            ops[a].pc = "refreshing" =>
                /\ ops'[a].pc \in {"refreshing", "resolved"}
                /\ Completes(ops[a].refresh) =>
                      /\ ops'[a].pc = "resolved"
                      /\ ops'[a].thrown = Null
                /\ HostListFails(ops[a].refresh) =>
                      /\ error' = MessageOf(lastCall'.failure,
                                            "Failed to fetch data")
                      /\ hosts' = hosts]_vars

\* no snapshot was ever published; an operation whose adapter call
\* succeeded has returned without an Error although the host-list fetch of
\* its refresh was refused: the refusal is the last error
C24_Witness ==
    /\ hosts = <<>>
    /\ ops[1].pc = "resolved"
    /\ ops[1].thrown = Null
    /\ lastCall.op = "getHosts rejected"
    /\ error = "connection refused"
    /\ loading = FALSE

-----------------------------------------------------------------------------
(* Claims about the completion of a refresh *)

\* C25: when every adapter call settles, every invocation of fetchData in
\* flight completes; it completes by publishing its result as the snapshot
\* or by putting the failure of its host-list fetch into last-error; and
\* once the effects of the first render have run the loading flag becomes
\* false.
C25_RefreshCompletes ==
    /\ \A r \in RefreshIds : InFlight(r) ~> ~InFlight(r)
    /\ (phase = "mounted") ~> (loading = FALSE)
    /\ [][\A r \in RefreshIds :
            (InFlight(r) /\ refreshes'[r].pc = "idle") =>
                \/ /\ Publishes(r)
                   /\ hosts' = HostsWithInstances(refreshes[r].results)
                \/ /\ HostListFails(r)
                   /\ error' # Null]_vars

\* two invocations have completed, the first publishing [h2, h1] with the
\* instance fetch of h1 failed, the second by a host-list fetch that threw
\* a value that is no Error; none is in flight
C25_Witness ==
    /\ phase = "mounted"
    /\ \A r \in RefreshIds : Free(r)
    /\ loading = FALSE
    /\ Ids(hosts) = <<"h2", "h1">>
    /\ hosts[2].instances = <<>>
    /\ Ids(hosts[1].instances) = <<"i2", "i1">>
    /\ error = "Failed to fetch data"

-----------------------------------------------------------------------------
(* Claims about the order a reorder writes *)

NoDuplicates(s) == \A i, j \in DOMAIN s : s[i] = s[j] => i = j

\* the order holds every id of the siblings once and no other id, those of
\* the saved order before it that match no sibling included
ExactlyTheSiblings(written, siblingIds, savedBefore) ==
    /\ NoDuplicates(written)
    /\ Len(written) = Len(siblingIds)
    /\ Range(written) = Range(siblingIds)
    /\ \A id \in Range(savedBefore) \ Range(siblingIds) :
          id \notin Range(written)

\* C26: the order a moveHost writes to the store, and keeps in memory,
\* holds exactly the ids of the hosts of the snapshot, each once; the order
\* a moveInstance writes and caches for a host holds exactly the ids of
\* the instances that host has in the snapshot, each once; an id of the
\* saved order before the move that matches no entity of the snapshot is
\* not in the written order.  (The ids of a snapshot are unique.)
C26_WrittenOrder ==
    [][/\ (lastCall'.op = "moveHost" /\ lastCall'.wrote # <<>>) =>
            /\ JsonWellFormed(storage'[HOST_ORDER_KEY])
            /\ hostOrder' = JsonParse(storage'[HOST_ORDER_KEY])
            /\ ExactlyTheSiblings(hostOrder', Ids(hosts), hostOrder)
       /\ (lastCall'.op = "moveInstance" /\ lastCall'.wrote # <<>>) =>
            LET h == lastCall'.hostId
            IN  /\ HasHost(h)
                /\ JsonWellFormed(storage'[InstanceOrderKey(h)])
                /\ instanceOrders'[h] = JsonParse(storage'[InstanceOrderKey(h)])
                /\ ExactlyTheSiblings(
                      instanceOrders'[h], Ids(FindHost(h).instances),
                      SavedInstanceOrder(instanceOrders, storage, h))]_vars

\* the store held the instance order [i3, gone] of h1 and still holds the
\* host order [h3, gone, h1]; i1 was moved up among the instances
\* [i1, i2, i3] of h1, shown as [i3, i1, i2]: the order written has the
\* three of them and nothing else
C26_Witness ==
    /\ lastCall = ReorderCall("moveInstance", "h1", "i1", "up",
                              InstanceOrderKey("h1"))
    /\ Ids(hosts) = <<"h1", "h2", "h3">>
    /\ readHostOrder(storage) = <<"h3", "gone", "h1">>
    /\ readInstanceOrder(storage, "h1") = <<"i1", "i3", "i2">>
    /\ instanceOrders = [h \in {"h1"} |-> <<"i1", "i3", "i2">>]

-----------------------------------------------------------------------------
(* Claims about the entities of the effective view *)

\* how many hosts of the view have the id
ShownTimes(id) ==
    Cardinality({k \in DOMAIN mergedHosts : mergedHosts[k].id = id})

\* C27: whatever entries the overlay holds and whatever ids the saved host
\* order and the saved instance orders name, the effective view has as
\* many hosts as the snapshot, every host of the snapshot is in it once,
\* every host in it is a host of the snapshot, and it carries the instances
\* that host has in the snapshot, each once and no other.
C27_ViewConservesEntities ==
    /\ Len(mergedHosts) = Len(hosts)
    /\ \A i \in DOMAIN hosts : ShownTimes(hosts[i].id) = 1
    /\ \A k \in DOMAIN mergedHosts :
          /\ HasHost(mergedHosts[k].id)
          /\ IsPermutation(mergedHosts[k].instances,
                           FindHost(mergedHosts[k].id).instances)

\* the snapshot is [h2, h1]; the overlay has entries for h1 and for a host
\* that is not there, the saved host order is [h1, gone], the saved
\* instance order of h1 is [i2, gone]: the view is [h1, h2], h1 with
\* [i2, i1]
C27_Witness ==
    /\ Ids(hosts) = <<"h2", "h1">>
    /\ {"h1", "gone"} \subseteq DOMAIN hostStatuses
    /\ hostOrder = <<"h1", "gone">>
    /\ readInstanceOrder(storage, "h1") = <<"i2", "gone">>
    /\ Ids(hosts[2].instances) = <<"i1", "i2">>
    /\ Ids(mergedHosts) = <<"h1", "h2">>
    /\ Ids(ViewHost("h1").instances) = <<"i2", "i1">>

=============================================================================
